---------------------------- MODULE Spec2Model ----------------------------
(***************************************************************************)
(* Verification model of the numerical demo programs of arc-projects:      *)
(*   - the epsilon-based bisection program   (src/unnamed/part_001, 1-76)  *)
(*   - the guard-only bisection program                                    *)
(*                         (src/tutorials/cpp/root_finding_methods.cpp)    *)
(*                                                                         *)
(* Every program variable is a C++ `float`.  A float is modelled as a      *)
(* record [m, e] standing for the real number m * 2^e, where m is a signed *)
(* 24-bit significand (2^23 <= |m| < 2^24) or m = 0, e = 0.  Arithmetic    *)
(* is IEEE-754 binary32 with round-to-nearest, ties-to-even.  Exponents    *)
(* are not clamped: the predicate Binary32Range states that every value    *)
(* the programs compute is a normal binary32 number.                        *)
(***************************************************************************)
EXTENDS Integers, Sequences, FiniteSets, TLC

-----------------------------------------------------------------------------
(* binary32 arithmetic                                                     *)

Abs(n) == IF n < 0 THEN -n ELSE n

Sgn(n) == IF n < 0 THEN -1 ELSE IF n > 0 THEN 1 ELSE 0

RECURSIVE BitLen(_)
BitLen(n) == IF n = 0 THEN 0 ELSE 1 + BitLen(n \div 2)

F(m, e) == [m |-> m, e |-> e]

FZero == F(0, 0)

\* Each operator below binds its operands with  u \in {a}  so that an operand
\* is evaluated once, before the operator is applied, as in C++ (an
\* operator's argument is otherwise evaluated again at every use).

\* The binary32 value nearest to n * 2^e (ties to even), for an integer n.
RoundToNearestEven(n, e) ==
    LET a == Abs(n)
        L == BitLen(a)
    IN  IF a = 0 THEN FZero
        ELSE IF L <= 24 THEN F(n * 2^(24 - L), e - (24 - L))
        ELSE LET k    == L - 24
                 q    == a \div 2^k
                 r    == a % 2^k
                 half == 2^(k - 1)
                 up   == r > half \/ (r = half /\ q % 2 = 1)
                 q2   == IF up THEN q + 1 ELSE q
             IN  IF q2 = 2^24 THEN F(Sgn(n) * 2^23, e + k + 1)
                 ELSE F(Sgn(n) * q2, e + k)

FRound(n, e) == CHOOSE r \in {RoundToNearestEven(u, v) : u \in {n}, v \in {e}} : TRUE

\* int -> float conversion of an integer literal or loop value.
FromInt(n) == FRound(n, 0)

FNeg(a) == F(-a.m, a.e)

\* a + b.  The operand of smaller exponent is aligned to the other one with
\* three extra low bits; the bits shifted out are kept as a sticky low bit.
AddRounded(a, b) ==
    IF a.m = 0 THEN b
    ELSE IF b.m = 0 THEN a
    ELSE LET hi  == IF a.e >= b.e THEN a ELSE b
             lo  == IF a.e >= b.e THEN b ELSE a
             d   == hi.e - lo.e
             l8  == Abs(lo.m) * 8
             lq  == IF d > 27 THEN 0 ELSE l8 \div 2^d
             rem == IF d > 27 THEN 1 ELSE l8 % 2^d
             ls  == IF rem # 0 /\ lq % 2 = 0 THEN lq + 1 ELSE lq
         IN  FRound(hi.m * 8 + Sgn(lo.m) * ls, hi.e - 3)

FAdd(a, b) == CHOOSE r \in {AddRounded(u, v) : u \in {a}, v \in {b}} : TRUE

FSub(a, b) == FAdd(a, FNeg(b))

\* a * b.  The 48-bit product of the significands is formed from 12-bit
\* halves; its top bits and a sticky low bit are then rounded.
MulRounded(a, b) ==
    IF a.m = 0 \/ b.m = 0 THEN FZero
    ELSE LET x   == Abs(a.m)
             z   == Abs(b.m)
             x1  == x \div 4096
             x0  == x % 4096
             z1  == z \div 4096
             z0  == z % 4096
             mid == x1 * z0 + x0 * z1
             low == x0 * z0 + (mid % 4096) * 4096
             H   == x1 * z1 + mid \div 4096 + low \div 2^24
             Lo  == low % 2^24
             t3  == Lo \div 2^21
             rem == Lo % 2^21
             ls  == IF rem # 0 /\ t3 % 2 = 0 THEN t3 + 1 ELSE t3
         IN  FRound(Sgn(a.m) * Sgn(b.m) * (H * 8 + ls), a.e + b.e + 21)

FMul(a, b) == CHOOSE r \in {MulRounded(u, v) : u \in {a}, v \in {b}} : TRUE

\* Long division: n more quotient bits of r / d, for r < d.
RECURSIVE DivBits(_, _, _, _)
DivBits(q, r, d, n) ==
    IF n = 0 THEN [q |-> q, r |-> r]
    ELSE IF 2 * r >= d THEN DivBits(2 * q + 1, 2 * r - d, d, n - 1)
    ELSE DivBits(2 * q, 2 * r, d, n - 1)

\* a / b for b # 0.  The quotient of the significands is developed to 26
\* fractional bits; a non-zero remainder is kept as a sticky low bit.
DivRounded(a, b) ==
    IF a.m = 0 THEN FZero
    ELSE LET x  == Abs(a.m)
             z  == Abs(b.m)
             qr == DivBits(x \div z, x % z, z, 26)
             ls == IF qr.r # 0 THEN 1 ELSE 0
         IN  FRound(Sgn(a.m) * Sgn(b.m) * (2 * qr.q + ls), a.e - b.e - 27)

FDiv(a, b) == CHOOSE r \in {DivRounded(u, v) : u \in {a}, v \in {b}} : TRUE

\* a / 2 (division of a float by the literal 2 is exact).
Halved(a) == IF a.m = 0 THEN a ELSE F(a.m, a.e - 1)

FHalf(a) == CHOOSE r \in {Halved(u) : u \in {a}} : TRUE

\* Comparisons: the difference of two floats has the sign of the exact
\* difference, and is zero only when they are equal.
FLt(a, b) == FSub(a, b).m < 0

FLe(a, b) == FSub(a, b).m <= 0

FGt(a, b) == FLt(b, a)

\* Every float a state holds is a normal binary32 number (no overflow, no
\* subnormal), so leaving the exponent unclamped loses nothing.
IsBinary32(a) == a.m = 0 \/ (2^23 <= Abs(a.m) /\ Abs(a.m) < 2^24
                              /\ 0 - 149 <= a.e /\ a.e <= 104)

-----------------------------------------------------------------------------
(* the programs' state                                                     *)

VARIABLES
    prog,       \* which program runs: "eps" (part_001) or "rf"
                \* (root_finding_methods.cpp)
    pc,         \* the statement main is at
    input,      \* the values the run was started with (never assigned)
    x_t0,       \* float x_t0: lower end of the interval
    x_T,        \* float x_T: upper end of the interval
    x_mid,      \* float x_mid: the candidate the function is evaluated at
    y,          \* float y: last value of continuous_function
    epsilon,    \* float epsilon (epsilon-based program)
    x_delta,    \* float x_delta (epsilon-based program)
    range_min,  \* float range_min (epsilon-based program)
    range_max,  \* float range_max (epsilon-based program)
    iters,      \* executions of the epsilon-based program's loop body,
                \* counted up to MaxIters
    zero_seen,  \* "Y is 0 at x = ..." has been printed
    report,     \* the final report of the epsilon-based program
    i,          \* float i: the tabulation loop's counter
    x_array,    \* std::vector<float> x_array
    y_array,    \* std::vector<float> y_array
    h,          \* float h: the partition size (part_002)
    xt,         \* float xt: the sample point (part_002)
    area,       \* float area: the accumulated area (part_002)
    v_down,     \* float v_down (eulerian_2d_fluid_simulation.cpp)
    cout,       \* the numbers eulerian_2d_fluid_simulation.cpp has printed
    ret         \* <<>> while main runs, <<0>> once it has returned 0

\* The variables that only part_002 and eulerian_2d_fluid_simulation.cpp
\* have; the bisection programs leave them as they are.
otherPrograms == <<h, xt, area, v_down, cout, ret>>

vars == <<prog, pc, input, x_t0, x_T, x_mid, y, epsilon, x_delta, range_min,
          range_max, iters, zero_seen, report, i, x_array, y_array,
          otherPrograms>>

\* A program that has none of them starts with them empty.
NoOtherPrograms ==
    /\ h = FZero
    /\ xt = FZero
    /\ area = FZero
    /\ v_down = FZero
    /\ cout = <<>>
    /\ ret = <<>>

\* float continuous_function(float x, float m, float c):
\*     return m*(x-3)*(x-3)*(x-3) + c;
continuous_function(x, m, c) ==
    LET t == FSub(x, FromInt(3))
    IN  FAdd(FMul(FMul(FMul(m, t), t), t), c)

\* Mutant of Midpoint: half the difference, the formula of line 18.
HalfDifference(a, b) == FHalf(FSub(b, a))

\* (a + b)/2 as the programs recompute x_mid.
Midpoint(a, b) == FHalf(FAdd(a, b))

\* (x_T - x_t0)/2, the value both programs give x_mid first.
InitialMid(lo, hi) == FHalf(FSub(hi, lo))

\* Mutant of Epsilon: 0.001f, a digit too many in the literal.
EpsilonThousandth == F(8589935, 0 - 33)

\* float epsilon = 0.01f: the binary32 nearest to 0.01 is 10737418 * 2^-30.
Epsilon == F(10737418, 0 - 30)

-----------------------------------------------------------------------------
(* inputs                                                                  *)

\* Largest integer tried as the interval's lower end.
MaxLo == 5

\* iters counts the executions of the loop body up to this number.
MaxIters == 40

\* The programs fix x_t0, x_T and the defaults m, c of continuous_function;
\* the model runs them from these values and from others.  0 is left out as
\* an endpoint: x_mid halving towards 0 would leave the normal range.
LoInts == {k \in (0 - 1)..MaxLo : k # 0}

HiInts == {1, 7, 11, 21, 200}

CInts == {5, 0}

Inputs(m) == {[x_t0 |-> FromInt(a), x_T |-> FromInt(b),
               m |-> FromInt(m), c |-> FromInt(k)] :
                  a \in LoInts, b \in HiInts, k \in CInts}

\* part_001: x_t0 = 1.0, x_T = 200.0, m = -2, c = 5.
EpsProgramInput == [x_t0 |-> FromInt(1), x_T |-> FromInt(200),
                    m |-> FromInt(0 - 2), c |-> FromInt(5)]

\* root_finding_methods.cpp: x_t0 = 1.0, x_T = 21.0, m = 2, c = 5.
RfProgramInput == [x_t0 |-> FromInt(1), x_T |-> FromInt(21),
                   m |-> FromInt(2), c |-> FromInt(5)]

\* Mutant of RoundHalfAway: truncation, as a cast to int would do.
RoundTowardZero(t) ==
    IF t.e >= 0 THEN t.m * 2^t.e
    ELSE IF 0 - t.e > 25 THEN 0
    ELSE Sgn(t.m) * (Abs(t.m) \div 2^(0 - t.e))

\* round(t): the integer nearest to the float t, halves away from zero.
RoundHalfAway(t) ==
    IF t.e >= 0 THEN t.m * 2^t.e
    ELSE IF 0 - t.e > 25 THEN 0
    ELSE Sgn(t.m) * ((Abs(t.m) + 2^(0 - t.e - 1)) \div 2^(0 - t.e))

round(a) == CHOOSE r \in {RoundHalfAway(u) : u \in {a}} : TRUE

\* int decimal_places = 2;
decimal_places == 2

\* float multiplier = std::pow(10.0, decimal_places);
multiplier == FromInt(10^decimal_places)

\* The final report: kind "range" carries range_min, range_max, range_mid
\* and the integer round(range_mid * multiplier), which is printed divided
\* by multiplier; kind "root" carries range_max as lo and hi.
NoReport == [kind |-> "none", lo |-> FZero, hi |-> FZero, mid |-> FZero,
             approx |-> 0]

f(x) == continuous_function(x, input.m, input.c)


-----------------------------------------------------------------------------
(* the epsilon-based bisection program: src/unnamed/part_001, lines 1-76    *)
(* pc: "while" (line 30), "eval" (31), "branch" (32-56), "report" (58),    *)
(*     "done" (after 66)                                                   *)

\* Lines 15-24: the declarations.  y is declared without a value and is
\* assigned at line 31 before it is ever read.
EpsStart(in) ==
    /\ prog = "eps"
    /\ input = in
    /\ NoOtherPrograms
    /\ x_t0 = in.x_t0
    /\ x_T = in.x_T
    /\ x_mid = InitialMid(in.x_t0, in.x_T)
    /\ epsilon = Epsilon
    /\ x_delta = FSub(in.x_T, InitialMid(in.x_t0, in.x_T))
    /\ range_min = FZero
    /\ range_max = FZero
    /\ y = FZero
    /\ pc = "while"
    /\ iters = 0
    /\ zero_seen = FALSE
    /\ report = NoReport
    /\ i = FZero
    /\ x_array = <<>>
    /\ y_array = <<>>

InitEps == \E in \in Inputs(0 - 2) : EpsStart(in)

\* Line 30: while (x_delta > epsilon)
EpsGuard == FGt(x_delta, epsilon)

EpsWhile ==
    /\ pc = "while"
    /\ EpsGuard
    /\ pc' = "eval"
    /\ UNCHANGED <<otherPrograms,
                   prog, input, x_t0, x_T, x_mid, y, epsilon, x_delta, range_min,
                   range_max, iters, zero_seen, report, i, x_array, y_array>>

EpsExit ==
    /\ pc = "while"
    /\ ~EpsGuard
    /\ pc' = "report"
    /\ UNCHANGED <<otherPrograms,
                   prog, input, x_t0, x_T, x_mid, y, epsilon, x_delta, range_min,
                   range_max, iters, zero_seen, report, i, x_array, y_array>>

\* Line 31: y = continuous_function(x_mid);
EpsEval ==
    /\ pc = "eval"
    /\ y' = f(x_mid)
    /\ iters' = IF iters < MaxIters THEN iters + 1 ELSE iters
    /\ pc' = "branch"
    /\ UNCHANGED <<otherPrograms,
                   prog, input, x_t0, x_T, x_mid, epsilon, x_delta, range_min,
                   range_max, zero_seen, report, i, x_array, y_array>>

\* Mutant of EpsZero: the interval is collapsed onto the root found.
EpsZeroCollapsesInterval ==
    /\ pc = "branch"
    /\ y = FZero
    /\ zero_seen' = TRUE
    /\ x_delta' = FZero
    /\ x_t0' = x_mid
    /\ x_T' = x_mid
    /\ range_max' = x_mid
    /\ range_min' = x_mid
    /\ pc' = "while"
    /\ UNCHANGED <<otherPrograms,
                   prog, input, x_mid, y, epsilon, iters, report, i,
                   x_array, y_array>>

\* Mutant of EpsZero: the branch of root_finding_methods.cpp, which prints the
\* message and leaves x_delta as it is.
EpsZeroKeepsDelta ==
    /\ pc = "branch"
    /\ y = FZero
    /\ zero_seen' = TRUE
    /\ pc' = "while"
    /\ UNCHANGED <<otherPrograms,
                   prog, input, x_t0, x_T, x_mid, y, epsilon, x_delta, range_min,
                   range_max, iters, report, i, x_array, y_array>>

\* Lines 32-36: if (y == 0)
EpsZero ==
    /\ pc = "branch"
    /\ y = FZero
    /\ zero_seen' = TRUE
    /\ x_delta' = FZero
    /\ range_max' = x_mid
    /\ range_min' = x_mid
    /\ pc' = "while"
    /\ UNCHANGED <<otherPrograms,
                   prog, input, x_t0, x_T, x_mid, y, epsilon, iters, report, i,
                   x_array, y_array>>

\* Mutant of EpsNeg: the new maximum is taken from x_delta, not x_mid.
EpsNegAssignsDelta ==
    /\ pc = "branch"
    /\ y # FZero
    /\ FLt(y, FZero)
    /\ x_T' = x_delta
    /\ x_mid' = Midpoint(x_t0, x_T')
    /\ x_delta' = FSub(x_T', x_mid')
    /\ range_max' = x_T'
    /\ range_min' = x_t0
    /\ pc' = "while"
    /\ UNCHANGED <<otherPrograms,
                   prog, input, x_t0, y, epsilon, iters, zero_seen, report, i,
                   x_array, y_array>>

\* Mutant of EpsNeg: the midpoint replaces the wrong end, x_t0.
EpsNegMovesLowerEnd ==
    /\ pc = "branch"
    /\ y # FZero
    /\ FLt(y, FZero)
    /\ x_t0' = x_mid
    /\ x_mid' = Midpoint(x_t0', x_T)
    /\ x_delta' = FSub(x_T, x_mid')
    /\ range_max' = x_T
    /\ range_min' = x_t0'
    /\ pc' = "while"
    /\ UNCHANGED <<otherPrograms,
                   prog, input, x_T, y, epsilon, iters, zero_seen, report, i,
                   x_array, y_array>>

\* Lines 37-46: else if (y < 0): the midpoint is the new maximum.
EpsNeg ==
    /\ pc = "branch"
    /\ y # FZero
    /\ FLt(y, FZero)
    /\ x_T' = x_mid
    /\ x_mid' = Midpoint(x_t0, x_T')
    /\ x_delta' = FSub(x_T', x_mid')
    /\ range_max' = x_T'
    /\ range_min' = x_t0
    /\ pc' = "while"
    /\ UNCHANGED <<otherPrograms,
                   prog, input, x_t0, y, epsilon, iters, zero_seen, report, i,
                   x_array, y_array>>

\* Mutant of EpsPos: range_min is not refreshed.
EpsPosKeepsRangeMin ==
    /\ pc = "branch"
    /\ y # FZero
    /\ ~FLt(y, FZero)
    /\ x_t0' = x_mid
    /\ x_mid' = Midpoint(x_t0', x_T)
    /\ x_delta' = FSub(x_T, x_mid')
    /\ range_max' = x_T
    /\ pc' = "while"
    /\ UNCHANGED <<otherPrograms,
                   prog, input, x_T, y, epsilon, iters, zero_seen, report, i,
                   x_array, y_array, range_min>>

\* Lines 47-56: else: the midpoint is the new minimum.
EpsPos ==
    /\ pc = "branch"
    /\ y # FZero
    /\ ~FLt(y, FZero)
    /\ x_t0' = x_mid
    /\ x_mid' = Midpoint(x_t0', x_T)
    /\ x_delta' = FSub(x_T, x_mid')
    /\ range_max' = x_T
    /\ range_min' = x_t0'
    /\ pc' = "while"
    /\ UNCHANGED <<otherPrograms,
                   prog, input, x_T, y, epsilon, iters, zero_seen, report, i,
                   x_array, y_array>>

\* Lines 58-63: if (range_max != range_min): "Root is determined to be
\* between range_min and range_max.", then range_mid and
\* "Root is approx. ~" round(range_mid * multiplier)/multiplier
EpsReportRange ==
    /\ pc = "report"
    /\ range_max # range_min
    /\ report' = [kind |-> "range", lo |-> range_min, hi |-> range_max,
                  mid |-> Midpoint(range_min, range_max),
                  approx |-> round(FMul(Midpoint(range_min, range_max),
                                        multiplier))]
    /\ pc' = "done"
    /\ UNCHANGED <<otherPrograms,
                   prog, input, x_t0, x_T, x_mid, y, epsilon, x_delta, range_min,
                   range_max, iters, zero_seen, i, x_array, y_array>>

\* Lines 64-66: else: "Root found at range_max"
EpsReportRoot ==
    /\ pc = "report"
    /\ range_max = range_min
    /\ report' = [kind |-> "root", lo |-> range_max, hi |-> range_max,
                  mid |-> FZero, approx |-> 0]
    /\ pc' = "done"
    /\ UNCHANGED <<otherPrograms,
                   prog, input, x_t0, x_T, x_mid, y, epsilon, x_delta, range_min,
                   range_max, iters, zero_seen, i, x_array, y_array>>

NextEps ==
    \/ EpsWhile
    \/ EpsExit
    \/ EpsEval
    \/ EpsZero
    \/ EpsNeg
    \/ EpsPos
    \/ EpsReportRange
    \/ EpsReportRoot

SpecEps == InitEps /\ [][NextEps]_vars

\* main is one thread that runs each statement in turn.
FairSpecEps == SpecEps /\ WF_vars(NextEps)

-----------------------------------------------------------------------------
(* the guard-only bisection program:                                       *)
(* src/tutorials/cpp/root_finding_methods.cpp                              *)
(* pc: "while" (line 22), "eval" (23), "branch" (24-32), "for" (34-40),    *)
(*     "done" (after 40)                                                   *)

\* Lines 12-20: the declarations.  The program has no epsilon, x_delta,
\* range_min, range_max and prints no final report.
RfStart(in) ==
    /\ prog = "rf"
    /\ input = in
    /\ NoOtherPrograms
    /\ x_t0 = in.x_t0
    /\ x_T = in.x_T
    /\ x_mid = InitialMid(in.x_t0, in.x_T)
    /\ y = FZero
    /\ pc = "while"
    /\ zero_seen = FALSE
    /\ x_array = <<>>
    /\ y_array = <<>>
    /\ i = FZero
    /\ epsilon = FZero
    /\ x_delta = FZero
    /\ range_min = FZero
    /\ range_max = FZero
    /\ iters = 0
    /\ report = NoReport

InitRf == \E in \in Inputs(2) : RfStart(in)

\* Line 22: while (x_t0 < x_T)
RfGuard == FLt(x_t0, x_T)

RfWhile ==
    /\ pc = "while"
    /\ RfGuard
    /\ pc' = "eval"
    /\ UNCHANGED <<otherPrograms,
                   prog, input, x_t0, x_T, x_mid, y, epsilon, x_delta, range_min,
                   range_max, iters, zero_seen, report, i, x_array, y_array>>

\* Line 34, first clause: the while loop is left and i = -5.0 starts the
\* tabulation loop.
RfExit ==
    /\ pc = "while"
    /\ ~RfGuard
    /\ i' = FromInt(0 - 5)
    /\ pc' = "for"
    /\ UNCHANGED <<otherPrograms,
                   prog, input, x_t0, x_T, x_mid, y, epsilon, x_delta, range_min,
                   range_max, iters, zero_seen, report, x_array, y_array>>

\* Line 23: y = continuous_function(x_mid);
RfEval ==
    /\ pc = "eval"
    /\ y' = f(x_mid)
    /\ pc' = "branch"
    /\ UNCHANGED <<otherPrograms,
                   prog, input, x_t0, x_T, x_mid, epsilon, x_delta, range_min,
                   range_max, iters, zero_seen, report, i, x_array, y_array>>

\* Lines 24-26: if (y == 0): the message is printed and nothing is assigned.
RfZero ==
    /\ pc = "branch"
    /\ y = FZero
    /\ zero_seen' = TRUE
    /\ pc' = "while"
    /\ UNCHANGED <<otherPrograms,
                   prog, input, x_t0, x_T, x_mid, y, epsilon, x_delta, range_min,
                   range_max, iters, report, i, x_array, y_array>>

\* Lines 27-29: else if (y < 0): x_mid = (x_t0 + x_mid)/2;
RfNeg ==
    /\ pc = "branch"
    /\ y # FZero
    /\ FLt(y, FZero)
    /\ x_mid' = Midpoint(x_t0, x_mid)
    /\ pc' = "while"
    /\ UNCHANGED <<otherPrograms,
                   prog, input, x_t0, x_T, y, epsilon, x_delta, range_min,
                   range_max, iters, zero_seen, report, i, x_array, y_array>>

\* Mutant of RfPos: the branch narrows the interval as the epsilon-based
\* program does, the midpoint becoming the new minimum.
RfPosMovesLowerEnd ==
    /\ pc = "branch"
    /\ y # FZero
    /\ ~FLt(y, FZero)
    /\ x_t0' = x_mid
    /\ x_mid' = Midpoint(x_t0', x_T)
    /\ pc' = "while"
    /\ UNCHANGED <<otherPrograms,
                   prog, input, x_T, y, epsilon, x_delta, range_min,
                   range_max, iters, zero_seen, report, i, x_array, y_array>>

\* Lines 30-32: else: x_mid = (x_mid + x_T)/2;
RfPos ==
    /\ pc = "branch"
    /\ y # FZero
    /\ ~FLt(y, FZero)
    /\ x_mid' = Midpoint(x_mid, x_T)
    /\ pc' = "while"
    /\ UNCHANGED <<otherPrograms,
                   prog, input, x_t0, x_T, y, epsilon, x_delta, range_min,
                   range_max, iters, zero_seen, report, i, x_array, y_array>>

\* Lines 34-40: for (float i = -5.0; i < 21.0; i++) { y = f(i); push both }
RfFor ==
    /\ pc = "for"
    /\ FLt(i, FromInt(21))
    /\ y' = f(i)
    /\ x_array' = Append(x_array, i)
    /\ y_array' = Append(y_array, y')
    /\ i' = FAdd(i, FromInt(1))
    /\ UNCHANGED <<otherPrograms,
                   prog, pc, input, x_t0, x_T, x_mid, epsilon, x_delta, range_min,
                   range_max, iters, zero_seen, report>>

RfForExit ==
    /\ pc = "for"
    /\ ~FLt(i, FromInt(21))
    /\ pc' = "done"
    /\ UNCHANGED <<otherPrograms,
                   prog, input, x_t0, x_T, x_mid, y, epsilon, x_delta, range_min,
                   range_max, iters, zero_seen, report, i, x_array, y_array>>

NextRf ==
    \/ RfWhile
    \/ RfExit
    \/ RfEval
    \/ RfZero
    \/ RfNeg
    \/ RfPos
    \/ RfFor
    \/ RfForExit

SpecRf == InitRf /\ [][NextRf]_vars

\* main is one thread that runs each statement in turn.
FairSpecRf == SpecRf /\ WF_vars(NextRf)

-----------------------------------------------------------------------------
(* the tabulation program: src/unnamed/part_001, lines 77-100               *)

\* The loop starts at -5.0; the model also starts it at the values below.
TabFirsts == {0 - 5, 0 - 6, 0 - 4, 0}

TabInputs == {[first |-> FromInt(a), last |-> FromInt(21),
               m |-> FromInt(2), c |-> FromInt(k)] :
                  a \in TabFirsts, k \in CInts}

\* part_001, second program: i = -5.0, i < 21.0, m = 2, c = 5.
TabProgramInput == [first |-> FromInt(0 - 5), last |-> FromInt(21),
                    m |-> FromInt(2), c |-> FromInt(5)]

\* Lines 88-92: the declarations and the loop's initialisation.  y is
\* declared without a value and is assigned at line 93 before it is read.
TabStart(in) ==
    /\ prog = "tab"
    /\ input = in
    /\ NoOtherPrograms
    /\ i = in.first
    /\ y = FZero
    /\ x_array = <<>>
    /\ y_array = <<>>
    /\ pc = "for"
    /\ x_t0 = FZero
    /\ x_T = FZero
    /\ x_mid = FZero
    /\ epsilon = FZero
    /\ x_delta = FZero
    /\ range_min = FZero
    /\ range_max = FZero
    /\ iters = 0
    /\ zero_seen = FALSE
    /\ report = NoReport

InitTab == \E in \in TabInputs : TabStart(in)

\* Mutant of TabFor: y is pushed before it is assigned.
TabForPushesOldY ==
    /\ pc = "for"
    /\ FLt(i, input.last)
    /\ y' = f(i)
    /\ x_array' = Append(x_array, i)
    /\ y_array' = Append(y_array, y)
    /\ i' = FAdd(i, FromInt(1))
    /\ UNCHANGED <<otherPrograms,
                   prog, pc, input, x_t0, x_T, x_mid, epsilon, x_delta,
                   range_min, range_max, iters, zero_seen, report>>

\* Lines 92-98: for (float i = -5.0; i < 21.0; i++) { y = f(i); push both }
TabFor ==
    /\ pc = "for"
    /\ FLt(i, input.last)
    /\ y' = f(i)
    /\ x_array' = Append(x_array, i)
    /\ y_array' = Append(y_array, y')
    /\ i' = FAdd(i, FromInt(1))
    /\ UNCHANGED <<otherPrograms,
                   prog, pc, input, x_t0, x_T, x_mid, epsilon, x_delta,
                   range_min, range_max, iters, zero_seen, report>>

\* Line 92: i < 21.0 is false.
TabForExit ==
    /\ pc = "for"
    /\ ~FLt(i, input.last)
    /\ pc' = "done"
    /\ UNCHANGED <<otherPrograms,
                   prog, input, x_t0, x_T, x_mid, y, epsilon, x_delta,
                   range_min, range_max, iters, zero_seen, report, i,
                   x_array, y_array>>

NextTab ==
    \/ TabFor
    \/ TabForExit

SpecTab == InitTab /\ [][NextTab]_vars

\* main is one thread that runs each statement in turn.
FairSpecTab == SpecTab /\ WF_vars(NextTab)

-----------------------------------------------------------------------------
(* the Riemann-sum program: src/unnamed/part_002                            *)

\* Lines 5-7: continuous_function of part_002, m * x + c.
linear_function(x, m, c) == FAdd(FMul(m, x), c)

\* The program fixes x_0 = 5 and no_of_partitions = 1000; the model also
\* runs it from the values below.
RiemannStarts == {5, 3}

RiemannPartitions == {1000, 10}

RiemannInputs == {[x |-> FromInt(5), m |-> FromInt(0 - 1), c |-> FromInt(0),
                   x_0 |-> FromInt(a), x_T |-> FromInt(0),
                   no_of_partitions |-> FromInt(n)] :
                      a \in RiemannStarts, n \in RiemannPartitions}

\* part_002: x = 5, m = -1, c = 0, x_0 = 5, x_T = 0, 1000 partitions.
RiemannProgramInput == [x |-> FromInt(5), m |-> FromInt(0 - 1),
                        c |-> FromInt(0), x_0 |-> FromInt(5),
                        x_T |-> FromInt(0),
                        no_of_partitions |-> FromInt(1000)]

\* Lines 13-39: the declarations, up to int i = 1.
RiemannStart(in) ==
    /\ prog = "riemann"
    /\ input = in
    /\ y = linear_function(in.x, in.m, in.c)
    /\ x_T = in.x_T
    /\ x_array = <<FromInt(0)>>
    /\ y_array = <<linear_function(FromInt(0), in.m, in.c)>>
    /\ h = FDiv(FSub(in.x_T, in.x_0), in.no_of_partitions)
    /\ xt = in.x_0
    /\ area = FZero
    /\ i = 1
    /\ pc = "for"
    /\ v_down = FZero
    /\ cout = <<>>
    /\ ret = <<>>
    /\ x_t0 = FZero
    /\ x_mid = FZero
    /\ epsilon = FZero
    /\ x_delta = FZero
    /\ range_min = FZero
    /\ range_max = FZero
    /\ iters = 0
    /\ zero_seen = FALSE
    /\ report = NoReport

InitRiemann == \E in \in RiemannInputs : RiemannStart(in)

\* Mutant of RiemannGuard: i < no_of_partitions.
RiemannGuardWithoutOne == FLt(FromInt(i), input.no_of_partitions)

\* Line 39: i < no_of_partitions + 1, the int i converted to float.
RiemannGuard == FLt(FromInt(i), FAdd(input.no_of_partitions, FromInt(1)))

\* Mutant of RiemannFor: the function is sampled at xi, the right end of the
\* partition (the commented-out yi).
RiemannForSamplesRightEnd ==
    /\ pc = "for"
    /\ RiemannGuard
    /\ area' = FAdd(area, FMul(linear_function(FAdd(xt, h), input.m, input.c), h))
    /\ xt' = FAdd(xt, h)
    /\ i' = i + 1
    /\ UNCHANGED <<prog, pc, input, x_t0, x_T, x_mid, y, epsilon, x_delta,
                   range_min, range_max, iters, zero_seen, report, x_array,
                   y_array, h, v_down, cout, ret>>

\* Lines 39-51: xi = xt + h; yt = continuous_function(xt, m, c);
\* area += yt * h; xt = xi; i++.
RiemannFor ==
    /\ pc = "for"
    /\ RiemannGuard
    /\ area' = FAdd(area, FMul(linear_function(xt, input.m, input.c), h))
    /\ xt' = FAdd(xt, h)
    /\ i' = i + 1
    /\ UNCHANGED <<prog, pc, input, x_t0, x_T, x_mid, y, epsilon, x_delta,
                   range_min, range_max, iters, zero_seen, report, x_array,
                   y_array, h, v_down, cout, ret>>

\* Lines 39, 52-54: the guard is false; the total is printed; return 0.
RiemannForExit ==
    /\ pc = "for"
    /\ ~RiemannGuard
    /\ pc' = "done"
    /\ ret' = <<0>>
    /\ UNCHANGED <<prog, input, x_t0, x_T, x_mid, y, epsilon, x_delta,
                   range_min, range_max, iters, zero_seen, report, i, x_array,
                   y_array, h, xt, area, v_down, cout>>

NextRiemann ==
    \/ RiemannFor
    \/ RiemannForExit

SpecRiemann == InitRiemann /\ [][NextRiemann]_vars

\* main is one thread that runs each statement in turn.
FairSpecRiemann == SpecRiemann /\ WF_vars(NextRiemann)

-----------------------------------------------------------------------------
(* the SUVAT program: src/simulations/eulerian_2d_fluid_simulation.cpp       *)

\* The integer nearest to v * 10^d (ties to even) for a float v = m * 2^e
\* with 1 <= v < 100 and d <= 5, so that e + d <= -12.  m * 5^d = 4096*Q + R
\* is formed from 12-bit halves of m and then shifted right by -(e + d).
RoundScaled(v, d) ==
    LET p    == 5^d
        Q    == (v.m \div 4096) * p + ((v.m % 4096) * p) \div 4096
        R    == ((v.m % 4096) * p) % 4096
        s    == 0 - (v.e + d)
        base == Q \div 2^(s - 12)
        rem  == (Q % 2^(s - 12)) * 4096 + R
        half == 2^(s - 1)
    IN  IF rem > half \/ (rem = half /\ base % 2 = 1) THEN base + 1 ELSE base

\* operator<< of a float at the stream's default precision of 6: the number
\* printed, digits / 10^decimals with six significant digits (trailing
\* zeros are not printed).  The model's runs print 0 or values in [1, 100).
FormatFloat(v) ==
    IF v.m = 0 THEN [digits |-> 0, decimals |-> 0]
    ELSE LET d == IF FLt(v, FromInt(10)) THEN 5 ELSE 4
             D == RoundScaled(v, d)
         IN  IF D = 10^6 THEN [digits |-> 10^5, decimals |-> d - 1]
             ELSE [digits |-> D, decimals |-> d]

\* The program fixes u = 0.0, a_down = 9.81 and t = 3.0; the model runs it
\* from u in 0..MaxU, t in 0..MaxT and the accelerations below, given in
\* hundredths.
MaxU == 3

MaxT == 4

Hundredths == {981, 162}

\* A decimal literal such as 9.81 becomes the nearest float.
SuvatInput(uu, hh, tt) ==
    [u |-> FromInt(uu), a_down |-> FDiv(FromInt(hh), FromInt(100)),
     t |-> FromInt(tt)]

SuvatInputs == {SuvatInput(uu, hh, tt) :
                    uu \in 0..MaxU, hh \in Hundredths, tt \in 0..MaxT}

\* eulerian_2d_fluid_simulation.cpp: u = 0.0, a_down = 9.81, t = 3.0.
SuvatProgramInput == SuvatInput(0, 981, 3)

\* Lines 31-34: the declarations.
SuvatStart(in) ==
    /\ prog = "suvat"
    /\ input = in
    /\ v_down = FZero
    /\ cout = <<>>
    /\ ret = <<>>
    /\ pc = "compute"
    /\ h = FZero
    /\ xt = FZero
    /\ area = FZero
    /\ x_t0 = FZero
    /\ x_T = FZero
    /\ x_mid = FZero
    /\ y = FZero
    /\ epsilon = FZero
    /\ x_delta = FZero
    /\ range_min = FZero
    /\ range_max = FZero
    /\ iters = 0
    /\ zero_seen = FALSE
    /\ report = NoReport
    /\ i = FZero
    /\ x_array = <<>>
    /\ y_array = <<>>

InitSuvat == \E in \in SuvatInputs : SuvatStart(in)

\* Mutant of FinalVelocity: the time is left out.
VelocityWithoutTime(u, a, t) == FAdd(u, a)

\* Line 36: u + a_down*t
FinalVelocity(u, a, t) == FAdd(u, FMul(a, t))

\* Line 36: v_down = u + a_down*t;
SuvatCompute ==
    /\ pc = "compute"
    /\ v_down' = FinalVelocity(input.u, input.a_down, input.t)
    /\ pc' = "print"
    /\ UNCHANGED <<prog, input, x_t0, x_T, x_mid, y, epsilon, x_delta,
                   range_min, range_max, iters, zero_seen, report, i, x_array,
                   y_array, h, xt, area, cout, ret>>

\* Line 37: std::cout << "Final velocity reached: " << v_down << "m/s"
SuvatPrint ==
    /\ pc = "print"
    /\ cout' = Append(cout, FormatFloat(v_down))
    /\ pc' = "return"
    /\ UNCHANGED <<prog, input, x_t0, x_T, x_mid, y, epsilon, x_delta,
                   range_min, range_max, iters, zero_seen, report, i, x_array,
                   y_array, h, xt, area, v_down, ret>>

\* Line 38: return 0;
SuvatReturn ==
    /\ pc = "return"
    /\ ret' = <<0>>
    /\ pc' = "done"
    /\ UNCHANGED <<prog, input, x_t0, x_T, x_mid, y, epsilon, x_delta,
                   range_min, range_max, iters, zero_seen, report, i, x_array,
                   y_array, h, xt, area, v_down, cout>>

NextSuvat ==
    \/ SuvatCompute
    \/ SuvatPrint
    \/ SuvatReturn

SpecSuvat == InitSuvat /\ [][NextSuvat]_vars

\* main is one thread that runs each statement in turn.
FairSpecSuvat == SpecSuvat /\ WF_vars(NextSuvat)

-----------------------------------------------------------------------------
(* either program                                                          *)

Init == InitEps \/ InitRf

Next ==
    \/ prog = "eps" /\ NextEps
    \/ prog = "rf" /\ NextRf

Spec == Init /\ [][Next]_vars

\* Every float of a state is a normal binary32 number or zero.
Binary32Range ==
    /\ \A v \in {x_t0, x_T, x_mid, y, epsilon, x_delta, range_min, range_max, i} :
            IsBinary32(v)
    /\ \A k \in 1..Len(x_array) : IsBinary32(x_array[k])
    /\ \A k \in 1..Len(y_array) : IsBinary32(y_array[k])


\* The cap MaxIters on the counter iters is never reached.
ItersBelowCap == iters < MaxIters

-----------------------------------------------------------------------------
(* properties                                                              *)

\* The real root of -2(x-3)^3 + 5 is 3 + r with 2 r^3 = 5, and
\* 2 * 694^3 < 5 * 512^3 < 2 * 695^3, so 694/512 < r < 695/512.
CubeRootBracketed ==
    /\ 2 * 694 * 694 * 694 < 5 * 512 * 512 * 512
    /\ 5 * 512 * 512 * 512 < 2 * 695 * 695 * 695

\* 3 + 694/512 and 3 + 695/512: the root of -2(x-3)^3 + 5 lies between them.
EpsRootBelow == FRound(3 * 512 + 694, 0 - 9)

EpsRootAbove == FRound(3 * 512 + 695, 0 - 9)

\* 3 - 695/512 and 3 - 694/512: the root of 2(x-3)^3 + 5 lies between them.
RfRootBelow == FRound(3 * 512 - 695, 0 - 9)

RfRootAbove == FRound(3 * 512 - 694, 0 - 9)

\* The values of continuous_function at a and b differ in sign, or one is 0.
SignsBracket(a, b) ==
    \/ f(a) = FZero
    \/ f(b) = FZero
    \/ Sgn(f(a).m) # Sgn(f(b).m)

\* The run's endpoints x_t0 < x_T have values of the same strict sign.
SameStrictSign ==
    /\ FLt(input.x_t0, input.x_T)
    /\ ~SignsBracket(input.x_t0, input.x_T)

\* The least k with 2^k >= n.
RECURSIVE CeilLog2(_)
CeilLog2(n) == IF n <= 1 THEN 0 ELSE 1 + CeilLog2((n + 1) \div 2)

\* C1: in the epsilon-based program run from x_t0 = 1, x_T = 200, once the
\* loop has exited without a y == 0 hit the range [range_min, range_max] is
\* no wider than epsilon.
C1_FinalWidthWithinEpsilon ==
    (input = EpsProgramInput /\ pc \in {"report", "done"} /\ ~zero_seen)
        => FLe(FSub(range_max, range_min), epsilon)

\* C2: in the epsilon-based program run from x_t0 = 1, x_T = 200, in every
\* state (so at the start of every iteration and at loop exit) the values of
\* continuous_function at x_t0 and x_T differ in sign or one is zero, the
\* real root 3 + (5/2)^(1/3) lies in [x_t0, x_T], and the reported range
\* contains that root.
C2_BracketHoldsRoot ==
    input = EpsProgramInput =>
        /\ CubeRootBracketed
        /\ SignsBracket(x_t0, x_T)
        /\ FLe(x_t0, EpsRootBelow) /\ FLe(EpsRootAbove, x_T)
        /\ report.kind = "range" =>
              FLe(report.lo, EpsRootBelow) /\ FLe(EpsRootAbove, report.hi)

\* C2 witness: the program's run has reported its final range
\* [4.35467529296875, 4.36669921875].
C2_Witness ==
    /\ input = EpsProgramInput
    /\ pc = "done"
    /\ report.kind = "range"
    /\ report.lo = F(9132416, 0 - 21)
    /\ report.hi = F(9157632, 0 - 21)


\* C3: root_finding_methods.cpp run from x_t0 = 1, x_T = 21 leaves its while
\* loop, runs the tabulation loop and terminates.
C3_RfTerminates == (input = RfProgramInput) => <>(pc = "done")

\* C4: the epsilon-based program terminates: the guard x_delta > epsilon
\* eventually fails, after narrowing steps or after a y == 0 hit, and one of
\* the two report branches is taken.
C4_EpsTerminates == <>(pc = "done" /\ report.kind \in {"range", "root"})

\* C4 witness: the program's run from x_t0 = 1, x_T = 200 has narrowed,
\* left the loop and reported.
C4_Witness ==
    /\ input = EpsProgramInput
    /\ pc = "done"
    /\ iters > 0
    /\ ~FGt(x_delta, epsilon)
    /\ report.kind = "range"

\* x_mid is within 1/64 (more than 0.01) of the interval
\* [RfRootBelow, RfRootAbove] that holds the root 3 - (5/2)^(1/3); every
\* x_mid within 0.01 of the root is.
RfNearRoot ==
    /\ FLe(FSub(RfRootBelow, F(2^23, 0 - 29)), x_mid)
    /\ FLe(x_mid, FAdd(RfRootAbove, F(2^23, 0 - 29)))

\* C5: in root_finding_methods.cpp run from x_t0 = 1, x_T = 21 the candidate
\* x_mid eventually comes and stays within 0.01 of the root 3 - (5/2)^(1/3).
C5_RfConverges == (input = RfProgramInput) => <>[]RfNearRoot

\* C6: in the epsilon-based program run from x_t0 = 1, x_T = 200 every
\* narrowing iteration (y # 0), the first one included, leaves the width
\* x_T - x_t0 at exactly half of what it was.
C6_WidthHalves ==
    [][(input = EpsProgramInput /\ pc = "branch" /\ y # FZero)
          => FSub(x_T', x_t0') = FHalf(FSub(x_T, x_t0))]_vars

\* C7: in the epsilon-based program run from x_t0 = 1, x_T = 200 (W = 199,
\* W / 0.01 = 19900) the loop body runs at most ceil(log2(19900)) = 15
\* times.
C7_IterationBound ==
    input = EpsProgramInput => (CeilLog2(19900) = 15 /\ iters <= CeilLog2(19900))

\* C7 witness: the program's run has left the loop after 14 executions of
\* the body.
C7_Witness ==
    /\ input = EpsProgramInput
    /\ pc = "done"
    /\ iters = 14

\* C8: once an iteration has found y == 0, no further iteration runs and
\* x_t0, x_T, x_mid stay as they were (checked on root_finding_methods.cpp).
C8_ZeroStopsLoop ==
    [][zero_seen => (pc' # "eval" /\ x_t0' = x_t0 /\ x_T' = x_T
                                  /\ x_mid' = x_mid)]_vars

\* C9: the epsilon-based program started on x_t0 < x_T whose function values
\* have the same strict sign reports neither a root nor a root range.
C9_NoBracketNoReport == SameStrictSign => report.kind \notin {"range", "root"}

\* C10: the epsilon-based program started on x_t0 < x_T reports a root only
\* at an x where y == 0 was observed, and a range only after a narrowing
\* step; "Root found at" is never printed for the untouched
\* range_min = range_max = 0.
C10_ReportIsObserved ==
    FLt(input.x_t0, input.x_T) =>
        /\ report.kind = "root" => (zero_seen /\ f(report.lo) = FZero)
        /\ report.kind = "range" => iters > 0


\* C11: the bisection search performs at most max_iterations loop iterations
\* and, when that budget runs out before the tolerance is met, ends in a
\* NotConverged outcome that carries the last bracket (stated for
\* max_iterations = 1 on the epsilon-based program).
C11_IterationBudget ==
    LET max_iterations == 1
    IN  /\ iters <= max_iterations
        /\ (iters = max_iterations /\ pc = "while" /\ EpsGuard)
              => (report.kind = "NotConverged" /\ report.lo = x_t0
                                               /\ report.hi = x_T)

\* C12: the epsilon-based program started with x_t0 >= x_T executes no
\* narrowing step and ends in an InvalidBracket outcome.
C12_InvalidBracket ==
    ~FLt(input.x_t0, input.x_T) =>
        /\ x_t0 = input.x_t0 /\ x_T = input.x_T
        /\ pc = "done" => report.kind = "InvalidBracket"

\* C13: the epsilon-based program started with f(x_t0) == 0 (or
\* f(x_T) == 0) evaluates no midpoint and reports exactly x_t0 (or x_T) as
\* the root.
C13_EndpointRoot ==
    /\ f(input.x_t0) = FZero =>
          /\ iters = 0
          /\ pc = "done" => (report.kind = "root" /\ report.lo = input.x_t0)
    /\ (f(input.x_t0) # FZero /\ f(input.x_T) = FZero) =>
          /\ iters = 0
          /\ pc = "done" => (report.kind = "root" /\ report.lo = input.x_T)

\* The run is one of the two programs as written.
ProgramAsWritten ==
    \/ prog = "eps" /\ input = EpsProgramInput
    \/ prog = "rf" /\ input = RfProgramInput

\* C14: in both bisection programs as written, x_t0 <= x_T holds in every
\* reachable state, before, during and after the while loop.
C14_IntervalOrdered == ProgramAsWritten => FLe(x_t0, x_T)

\* C14 witness: the epsilon-based program has moved both ends of its
\* interval and left the loop.
C14_Witness ==
    /\ prog = "eps"
    /\ input = EpsProgramInput
    /\ pc = "done"
    /\ x_t0 # input.x_t0
    /\ x_T # input.x_T

\* C15: in the epsilon-based program run from x_t0 = 1, x_T = 200, whenever
\* f is about to be evaluated (line 31), the first time included,
\* x_mid = (x_t0 + x_T)/2.
C15_MidpointRule ==
    (input = EpsProgramInput /\ pc = "eval") => x_mid = Midpoint(x_t0, x_T)

\* C16: in root_finding_methods.cpp run from x_t0 = 1, x_T = 21 the distance
\* of x_mid from the root 3 - (5/2)^(1/3) never grows: while x_mid stays on
\* one side of the interval [RfRootBelow, RfRootAbove] that holds the root,
\* it does not move away from it.
C16_NeverFartherFromRoot ==
    [][input = RfProgramInput =>
          /\ (FLe(RfRootAbove, x_mid) /\ FLe(RfRootAbove, x_mid'))
                => FLe(x_mid', x_mid)
          /\ (FLe(x_mid, RfRootBelow) /\ FLe(x_mid', RfRootBelow))
                => FLe(x_mid, x_mid')]_vars

\* C17: in the epsilon-based program run from x_t0 = 1, x_T = 200, every
\* iteration with y # 0 replaces the endpoint the specified rule names:
\* x_t0 when y has the sign of f(x_t0), x_T otherwise.
C17_NarrowingRule ==
    [][(input = EpsProgramInput /\ pc = "branch" /\ y # FZero) =>
          IF Sgn(y.m) = Sgn(f(x_t0).m)
          THEN x_t0' = x_mid /\ x_T' = x_T
          ELSE x_T' = x_mid /\ x_t0' = x_t0]_vars

\* C17 witness: the program's run has replaced x_t0 at least once and x_T at
\* least once.
C17_Witness ==
    /\ input = EpsProgramInput
    /\ pc = "while"
    /\ iters \in 6..13
    /\ x_t0 # input.x_t0
    /\ x_T # input.x_T

\* C18: in the epsilon-based program every narrowing iteration replaces
\* exactly one of x_t0, x_T by the x_mid at which f was evaluated and leaves
\* the other as it was; the y == 0 iteration changes neither.
C18_OneEndpointMoves ==
    [][pc = "branch" =>
          IF y = FZero
          THEN x_t0' = x_t0 /\ x_T' = x_T
          ELSE \/ x_t0' = x_mid /\ x_T' = x_T /\ x_mid # x_T
               \/ x_T' = x_mid /\ x_t0' = x_t0 /\ x_mid # x_t0]_vars

\* C18 witness: a run has narrowed and then hit y == 0.
C18_Witness ==
    /\ zero_seen
    /\ iters > 1
    /\ x_T # input.x_T
    /\ pc = "done"

\* |approx / multiplier - mid| <= 1 / (2 * multiplier), in integers: with
\* mid = m * 2^e and e < 0, |approx * 2^-e - multiplier * m| <= 2^(-e-1).
WithinHalfUnit(approx, mid) ==
    mid.e < 0 /\
    Abs(approx * 2^(0 - mid.e) - 10^decimal_places * mid.m) <= 2^(0 - mid.e - 1)

\* C19: on the range branch of the epsilon-based program the printed root is
\* the midpoint (range_min + range_max)/2 of the final bracket rounded to
\* decimal_places = 2 decimals: an integer over 100 that differs from the
\* midpoint by at most 0.005; and the report step changes none of x_t0, x_T,
\* range_min, range_max.
C19_ReportedApproximation ==
    /\ [](report.kind = "range" =>
            /\ report.lo = range_min /\ report.hi = range_max
            /\ report.mid = Midpoint(range_min, range_max)
            /\ WithinHalfUnit(report.approx, report.mid))
    /\ [][pc = "report" => (x_t0' = x_t0 /\ x_T' = x_T
                            /\ range_min' = range_min
                            /\ range_max' = range_max)]_vars

\* C19 witness: the program's run has printed "Root is approx. ~4.36" for
\* the midpoint 4.3606872558593750 of its final range.
C19_Witness ==
    /\ input = EpsProgramInput
    /\ pc = "done"
    /\ report.kind = "range"
    /\ report.mid = F(9145024, 0 - 21)
    /\ report.approx = 436

\* C20: the while loop of root_finding_methods.cpp never assigns x_t0 or
\* x_T: in the program as written x_t0 = 1 and x_T = 21 in every state, and
\* the guard x_t0 < x_T is true at every evaluation.
C20_EndpointsNeverMove ==
    /\ [][x_t0' = x_t0 /\ x_T' = x_T]_vars
    /\ [](input = RfProgramInput =>
             /\ x_t0 = FromInt(1) /\ x_T = FromInt(21)
             /\ pc = "while" => RfGuard)

\* C20 witness: the program as written evaluates its guard with x_mid grown
\* to 21.0.
C20_Witness ==
    /\ input = RfProgramInput
    /\ pc = "while"
    /\ x_mid = FromInt(21)
    /\ x_t0 = FromInt(1)

\* C21: in the epsilon-based program run from x_t0 = 1, x_T = 200, whenever
\* the loop guard is evaluated, at loop entry included, x_delta is half the
\* width of the interval, (x_T - x_t0)/2.
C21_DeltaIsHalfWidth ==
    (input = EpsProgramInput /\ pc = "while")
        => x_delta = FHalf(FSub(x_T, x_t0))

\* C22: in the epsilon-based program run from x_t0 = 1, x_T = 200, no step
\* lowers x_t0 or raises x_T, and the interval stays inside [1, 200].
C22_BracketsNested ==
    /\ [][input = EpsProgramInput
             => (FLe(x_t0, x_t0') /\ FLe(x_T', x_T))]_vars
    /\ [](input = EpsProgramInput
             => (FLe(FromInt(1), x_t0) /\ FLe(x_T, FromInt(200))))

\* C22 witness: the program's run is in its loop with both ends strictly
\* inside [1, 200].
C22_Witness ==
    /\ input = EpsProgramInput
    /\ pc = "branch"
    /\ FLt(FromInt(1), x_t0)
    /\ FLt(x_T, FromInt(200))

\* C23: in both bisection programs as written, x_t0 <= x_mid <= x_T holds in
\* every reachable state, from the declarations onward.
C23_MidInsideBracket ==
    ProgramAsWritten => (FLe(x_t0, x_mid) /\ FLe(x_mid, x_T))

\* C23 witness: root_finding_methods.cpp has moved x_mid off its initial
\* value, strictly between x_t0 and x_T.
C23_Witness ==
    /\ prog = "rf"
    /\ input = RfProgramInput
    /\ x_mid # InitialMid(x_t0, x_T)
    /\ FLt(x_t0, x_mid)
    /\ FLt(x_mid, x_T)

\* C24: in the epsilon-based program every narrowing step leaves
\* range_min = x_t0 and range_max = x_T, and at the final report of a run
\* whose loop body ran (the program's own run included)
\* range_max == range_min exactly when some iteration observed y == 0, both
\* then being the x_mid of that iteration.
C24_RangeBookkeeping ==
    /\ [][(pc = "branch" /\ y # FZero)
             => (range_min' = x_t0' /\ range_max' = x_T')]_vars
    /\ []((pc = "report" /\ (input = EpsProgramInput \/ iters > 0)) =>
             /\ (range_max = range_min) <=> zero_seen
             /\ zero_seen => (range_min = x_mid /\ f(x_mid) = FZero))

\* C24 witness: a run has narrowed, then observed y == 0, and is at its
\* report with range_max == range_min == x_mid.
C24_Witness ==
    /\ pc = "report"
    /\ zero_seen
    /\ iters > 1
    /\ range_max = range_min
    /\ range_min = x_mid

\* C27: the tabulation program's loop over i = -5, -4, ..., 20 ends after
\* exactly 26 iterations; x_array and y_array have the same length after
\* every iteration, 26 at the end; and for every index k (from 0),
\* x_array[k] = -5 + k and y_array[k] = 2*(x_array[k] - 3)^3 + 5.
C27_Tabulation ==
    /\ [](Len(x_array) = Len(y_array))
    /\ [](input = TabProgramInput =>
             /\ Len(x_array) <= 26
             /\ pc = "done" => Len(x_array) = 26
             /\ \A k \in 0..(Len(x_array) - 1) :
                   /\ x_array[k + 1] = FromInt(k - 5)
                   /\ y_array[k + 1] = FromInt(2 * (k - 5 - 3)^3 + 5))
    /\ <>(pc = "done")

\* C27 witness: the program's run has ended with 26 rows, the last one
\* x = 20, y = 2 * 17^3 + 5 = 9831.
C27_Witness ==
    /\ input = TabProgramInput
    /\ pc = "done"
    /\ Len(y_array) = 26
    /\ x_array[26] = FromInt(20)
    /\ y_array[26] = FromInt(9831)

\* |a - b| <= tol, for floats.
Near(a, b, tol) ==
    LET d == FSub(a, b) IN FLe(F(Abs(d.m), d.e), tol)

\* The left-endpoint Riemann sum h * sum_{k=0}^{N-1} f(x_0 + k*h) for
\* N = 1000, x_0 = 5, x_T = 0, f(x) = -x, in millionths: the k-th term is
\* (-(5000 - 5k)/1000) * (-5/1000).  It is 12512500, that is 12.5125.
RECURSIVE SumOfTerms(_, _)
SumOfTerms(lo, hi) ==
    IF lo > hi THEN 0
    ELSE IF lo = hi THEN (5000 - 5 * lo) * 5
    ELSE LET half == (lo + hi) \div 2
         IN  SumOfTerms(lo, half) + SumOfTerms(half + 1, hi)

LeftSumMillionths == SumOfTerms(0, 999)

\* |d| <= 1/80 = 0.0125 for a float d.
WithinEightieth(d) ==
    IF d.e >= 0 THEN d.m = 0
    ELSE IF 0 - d.e > 30 THEN TRUE
    ELSE 80 * Abs(d.m) <= 2^(0 - d.e)

\* C25: the area the Riemann-sum program has accumulated when its loop ends
\* is the left-endpoint Riemann sum of f(x) = -x over 1000 partitions from
\* x_0 = 5 to x_T = 0, which is 12.5125 in exact arithmetic (the binary32
\* accumulation is within 2^-11 of it), and it is within 0.0125 of the
\* integral 12.5.
C25_LeftRiemannSum ==
    (input = RiemannProgramInput /\ pc = "done") =>
        /\ LeftSumMillionths = 12512500
        /\ Near(area, FDiv(FromInt(LeftSumMillionths), FromInt(1000000)),
                F(2^23, 0 - 34))
        /\ WithinEightieth(FSub(area, FHalf(FromInt(25))))

\* C25 witness: the program's run has ended with area = 12.512267112731934.
C25_Witness ==
    /\ input = RiemannProgramInput
    /\ pc = "done"
    /\ area = F(13120063, 0 - 20)

\* C26: the partition loop of the Riemann-sum program runs exactly
\* no_of_partitions iterations and ends; f is sampled only between x_T and
\* x_0; and in the program as written the sample point of iteration i is
\* x_0 + (i-1)*h = (1001 - i)/200 in exact arithmetic, x_T after the last
\* iteration (the binary32 xt is within 2^-12 of it).
C26_PartitionLoop ==
    /\ [](pc = "done" => FromInt(i - 1) = input.no_of_partitions)
    /\ []((pc = "for" /\ RiemannGuard)
             => (FLe(x_T, xt) /\ FLe(xt, input.x_0)))
    /\ [](input = RiemannProgramInput =>
             /\ Near(xt, FDiv(FromInt(1001 - i), FromInt(200)),
                     F(2^23, 0 - 35))
             /\ pc = "done" => (i = 1001 /\ Near(xt, x_T, F(2^23, 0 - 35))))
    /\ <>(pc = "done")

\* C26 witness: the program's run has left its loop after 1000 iterations
\* with xt = -0.0000667870044708252.
C26_Witness ==
    /\ input = RiemannProgramInput
    /\ pc = "done"
    /\ i = 1001
    /\ xt = F(0 - 9179136, 0 - 37)
    /\ ret = <<0>>

\* C28: the SUVAT program prints the final velocity u + a_down * t, which
\* for u = 0, a_down = 9.81, t = 3 is 29.43 (for every modelled start the
\* number printed is the exact decimal u + a_down * t), and main then
\* returns 0.
C28_FinalVelocity ==
    /\ [](pc \in {"print", "return", "done"}
             => v_down = FAdd(input.u, FMul(input.a_down, input.t)))
    /\ [](\A uu \in 0..MaxU, hh \in Hundredths, tt \in 0..MaxT :
             (input = SuvatInput(uu, hh, tt) /\ pc \in {"return", "done"}) =>
                 /\ Len(cout) = 1
                 /\ cout[1].digits * 100
                        = (100 * uu + hh * tt) * 10^cout[1].decimals)
    /\ []((input = SuvatProgramInput /\ pc \in {"return", "done"})
             => cout = <<[digits |-> 294300, decimals |-> 4]>>)
    /\ [](pc = "done" <=> ret = <<0>>)
    /\ <>(pc = "done")

\* C28 witness: the program as written has printed 29.43 for
\* v_down = 29.4300003051757812 and returned 0.
C28_Witness ==
    /\ input = SuvatProgramInput
    /\ pc = "done"
    /\ v_down = F(15429796, 0 - 19)
    /\ cout = <<[digits |-> 294300, decimals |-> 4]>>
    /\ ret = <<0>>

=============================================================================
